---- MODULE Spec2Model ----
(***************************************************************************)
(* Level progression of the geometry tutor (src/app.py).                   *)
(*                                                                         *)
(* One visitor's Flask session is the state.  Every request handler is an  *)
(* operator from (session, inputs) to the session it leaves and the         *)
(* response it returns; the actions of the specification apply the          *)
(* handlers to the variable `session` and record the last response in      *)
(* `response`.                                                              *)
(*                                                                         *)
(* Numbers.  Lengths are integers in hundredths (2 decimal places is the   *)
(* finest precision generate_question rounds to) and answers are integers  *)
(* in units of 1/20000.  Accuracy correct/attempts is compared with a      *)
(* threshold n/d by cross-multiplication: for the attempt counts of the    *)
(* model the floating-point quotient and the literal threshold compare     *)
(* exactly as the rationals do.                                            *)
(***************************************************************************)
EXTENDS Integers, Sequences, FiniteSets, TLC

VARIABLES session, response

vars == <<session, response>>

(***************************************************************************)
(* Bounds of the model.                                                    *)
(***************************************************************************)
\* Spec: submissions accepted in one session (caps total_attempts)
MaxSubmits == 8
\* SpecShapes: submissions accepted in one session, and those of them that
\* answer a question about OtherShape
MaxShapeSubmits == 6
MaxOtherSubmits == 1
MaxReadSubmits == 8
MaxEvalSubmits == 1
MaxFullSubmits == 3
MaxLiveWrong == 2
MaxDraws == 3

(***************************************************************************)
(* Configuration: LEVELS, LEVEL_ORDER, the shapes.                         *)
(***************************************************************************)
LEVEL_ORDER == <<"beginner", "intermediate", "expert">>

Levels == {LEVEL_ORDER[i] : i \in 1..Len(LEVEL_ORDER)}

\* LEVEL_ORDER.index(level), 1-based
LevelIndex(level) == CHOOSE i \in 1..Len(LEVEL_ORDER) : LEVEL_ORDER[i] = level

\* questions_required and pass_threshold (as the fraction num/den) per level
LEVELS ==
  [l \in Levels |->
     [questions_required |-> 5,
      pass_threshold |->
         CASE l = "beginner"     -> [num |-> 6, den |-> 10]
           [] l = "intermediate" -> [num |-> 7, den |-> 10]
           [] l = "expert"       -> [num |-> 8, den |-> 10]]]

\* the accuracy below which a level with enough attempts needs help: 0.4
HELP_ACCURACY == [num |-> 4, den |-> 10]

\* the keys of progress['shapes']
Shapes == {"square", "rectangle", "triangle", "circle"}

\* the per-level outcome list and the global history keep this many entries
QUESTIONS_KEPT == 20
HISTORY_KEPT == 50

(***************************************************************************)
(* Inputs of the requests.                                                 *)
(***************************************************************************)
\* Spec: the shape names requested in the URL, a shape and a name that is
\* no shape
ShapeNames == {"square", "hexagon"}

\* SpecShapes: a visitor who works on two shapes
OtherShape == "circle"
TwoShapes == {"square", OtherShape}

\* request bodies of POST /api/submit-answer that carry no number: no JSON
\* body, no 'user_answer' key, a null value, a text that is no number
BadBodies == {"no_json", "no_field", "null", "text"}

(***************************************************************************)
(* The progress record.                                                    *)
(***************************************************************************)
create_shape_progress ==
  [current_level |-> "beginner",
   levels |-> [l \in Levels |->
                 [unlocked |-> (l = "beginner"), attempts |-> 0, correct |-> 0,
                  completed |-> FALSE, questions |-> <<>>]],
   mastered |-> FALSE]

NewProgress ==
  [total_attempts |-> 0, correct_answers |-> 0, wrong_answers |-> 0,
   shapes |-> [s \in Shapes |-> create_shape_progress],
   history |-> <<>>]

\* the value of a question field while the session holds no question
NoQuestion == [shape |-> "none", level |-> "none", given |-> <<>>,
               correct_answer |-> 0, user_answer |-> <<>>]

\* A session is the set of keys it holds and the values of 'progress' and
\* 'current_question' (NewProgress and NoQuestion while the key is absent).
EmptySession ==
  [keys |-> {}, progress |-> NewProgress, current_question |-> NoQuestion]

\* 'progress' not in session => session['progress'] = {...}
init_progress(sess) ==
  IF "progress" \in sess.keys
    THEN sess
    ELSE [sess EXCEPT !.keys = @ \cup {"progress"}, !.progress = NewProgress]

(***************************************************************************)
(* generate_question.  Lengths are in hundredths; an answer is an area in  *)
(* units of 1/20000 (twice the product of two lengths in hundredths), so   *)
(* that the triangle's b*h/2 is an integer.  draw is the pair of values    *)
(* random.uniform returned, after rounding.                                *)
(***************************************************************************)
\* ranges['min'], ranges['max'] in hundredths, and decimal_places
ranges(level) ==
  CASE level = "beginner"     -> [min |-> 200, max |-> 1000, decimal_places |-> 0]
    [] level = "intermediate" -> [min |-> 300, max |-> 1500, decimal_places |-> 1]
    [] OTHER                  -> [min |-> 500, max |-> 2500, decimal_places |-> 2]

\* math.pi, as a fraction
PI == [num |-> 355, den |-> 113]

\* 'given': the parameters of the question
Given(shape, draw) ==
  CASE shape = "square"    -> [side |-> draw[1]]
    [] shape = "rectangle" -> [length |-> draw[1], width |-> draw[2]]
    [] shape = "triangle"  -> [base |-> draw[1], height |-> draw[2]]
    [] shape = "circle"    -> [radius |-> draw[1]]

\* (mutant) the triangle's area is not halved
Area_triangle_not_halved(shape, draw) ==
  CASE shape = "square"    -> 2 * draw[1] * draw[1]
    [] shape = "rectangle" -> 2 * draw[1] * draw[2]
    [] shape = "triangle"  -> 2 * draw[1] * draw[2]
    [] shape = "circle"    -> (2 * draw[1] * draw[1] * PI.num) \div PI.den

\* correct_answer of the shape for the given parameters
Area(shape, draw) ==
  CASE shape = "square"    -> 2 * draw[1] * draw[1]
    [] shape = "rectangle" -> 2 * draw[1] * draw[2]
    [] shape = "triangle"  -> draw[1] * draw[2]
    [] shape = "circle"    -> (2 * draw[1] * draw[1] * PI.num) \div PI.den

\* the question, or NoQuestion for the None of an unsupported shape
generate_question(shape, level, draw) ==
  IF shape \in Shapes
    THEN [shape |-> shape, level |-> level, given |-> Given(shape, draw),
          correct_answer |-> Area(shape, draw), user_answer |-> <<>>]
    ELSE NoQuestion

\* the draws of the model: the low end of each parameter's range
\* (the radius of a circle is drawn from half the range)
Draws(shape, level) ==
  IF shape = "circle"
    THEN {<<ranges(level).min \div 2, ranges(level).min \div 2>>}
    ELSE {<<ranges(level).min, ranges(level).min>>}

(***************************************************************************)
(* check_level_progress, advance_level, update_progress.  The operators    *)
(* take the session and return the session they leave (each starts with    *)
(* init_progress()) and, where the code returns one, the result.           *)
(***************************************************************************)
\* accuracy >= frac, where accuracy is 0 without attempts
AccuracyAtLeast(level_data, frac) ==
  IF level_data.attempts > 0
    THEN level_data.correct * frac.den >= frac.num * level_data.attempts
    ELSE 0 >= frac.num

\* level_data['questions'][-3:] if there are at least 3, else []
Recent(questions) ==
  IF Len(questions) >= 3
    THEN SubSeq(questions, Len(questions) - 2, Len(questions))
    ELSE <<>>

\* (mutant) the streak looks at the last 3 outcomes and asks for one wrong
\* answer among them (any for all)
LevelStatus_any_wrong(level_data, level_config) ==
  LET enough == level_data.attempts >= level_config.questions_required
      passed == AccuracyAtLeast(level_data, level_config.pass_threshold)
      recent == Recent(level_data.questions)
  IN  [can_advance    |-> enough /\ passed,
       level_complete |-> enough /\ passed,
       needs_help     |->
          \/ enough /\ ~passed /\ ~AccuracyAtLeast(level_data, HELP_ACCURACY)
          \/ Len(recent) = 3 /\ \E i \in 1..Len(recent) : ~recent[i].correct,
       attempts       |-> level_data.attempts,
       correct        |-> level_data.correct,
       required       |-> level_config.questions_required]

\* (mutant) attempts == questions_required for >=
LevelStatus_exactly_required(level_data, level_config) ==
  LET enough == level_data.attempts = level_config.questions_required
      passed == AccuracyAtLeast(level_data, level_config.pass_threshold)
      recent == Recent(level_data.questions)
  IN  [can_advance    |-> enough /\ passed,
       level_complete |-> enough /\ passed,
       needs_help     |->
          \/ enough /\ ~passed /\ ~AccuracyAtLeast(level_data, HELP_ACCURACY)
          \/ Len(recent) = 3 /\ \A i \in 1..Len(recent) : ~recent[i].correct,
       attempts       |-> level_data.attempts,
       correct        |-> level_data.correct,
       required       |-> level_config.questions_required]

\* the result dictionary of check_level_progress
LevelStatus(level_data, level_config) ==
  LET enough == level_data.attempts >= level_config.questions_required
      passed == AccuracyAtLeast(level_data, level_config.pass_threshold)
      recent == Recent(level_data.questions)
  IN  [can_advance    |-> enough /\ passed,
       level_complete |-> enough /\ passed,
       needs_help     |->
          \/ enough /\ ~passed /\ ~AccuracyAtLeast(level_data, HELP_ACCURACY)
          \/ Len(recent) = 3 /\ \A i \in 1..Len(recent) : ~recent[i].correct,
       attempts       |-> level_data.attempts,
       correct        |-> level_data.correct,
       required       |-> level_config.questions_required]

\* (mutant) the check marks the level completed when it can advance
check_level_progress_marks(sess, shape, level) ==
  LET s1 == init_progress(sess)
      result == LevelStatus(s1.progress.shapes[shape].levels[level],
                            LEVELS[level])
  IN  [session |->
         IF result.can_advance
           THEN [s1 EXCEPT !.progress.shapes[shape].levels[level].completed = TRUE]
           ELSE s1,
       result  |-> result]

check_level_progress(sess, shape, level) ==
  LET s1 == init_progress(sess)
  IN  [session |-> s1,
       result  |-> LevelStatus(s1.progress.shapes[shape].levels[level],
                               LEVELS[level])]

\* (mutant) the level that is left is locked again
advance_level_locks_completed(sess, shape) ==
  LET s1 == init_progress(sess)
      current_level == s1.progress.shapes[shape].current_level
      current_index == LevelIndex(current_level)
      done == [s1 EXCEPT
                 !.progress.shapes[shape].levels[current_level].completed = TRUE]
  IN  IF current_index < Len(LEVEL_ORDER)
        THEN LET next_level == LEVEL_ORDER[current_index + 1]
             IN  [session |->
                    [done EXCEPT
                       !.progress.shapes[shape].current_level = next_level,
                       !.progress.shapes[shape].levels[current_level].unlocked = FALSE,
                       !.progress.shapes[shape].levels[next_level].unlocked = TRUE],
                  result |-> [advanced |-> TRUE, new_level |-> next_level,
                              shape_mastered |-> FALSE]]
        ELSE [session |-> [done EXCEPT !.progress.shapes[shape].mastered = TRUE],
              result |-> [advanced |-> FALSE, new_level |-> "none",
                          shape_mastered |-> TRUE]]

\* (mutant) the shape is mastered one level early: the last index is taken
\* for len(LEVEL_ORDER) - 2
advance_level_masters_early(sess, shape) ==
  LET s1 == init_progress(sess)
      current_level == s1.progress.shapes[shape].current_level
      current_index == LevelIndex(current_level)
      done == [s1 EXCEPT
                 !.progress.shapes[shape].levels[current_level].completed = TRUE]
  IN  IF current_index < Len(LEVEL_ORDER) - 1
        THEN LET next_level == LEVEL_ORDER[current_index + 1]
             IN  [session |->
                    [done EXCEPT
                       !.progress.shapes[shape].current_level = next_level,
                       !.progress.shapes[shape].levels[next_level].unlocked = TRUE],
                  result |-> [advanced |-> TRUE, new_level |-> next_level,
                              shape_mastered |-> FALSE]]
        ELSE [session |-> [done EXCEPT !.progress.shapes[shape].mastered = TRUE],
              result |-> [advanced |-> FALSE, new_level |-> "none",
                          shape_mastered |-> TRUE]]

\* (mutant) the level that is unlocked is the last of LEVEL_ORDER
advance_level_unlocks_last(sess, shape) ==
  LET s1 == init_progress(sess)
      current_level == s1.progress.shapes[shape].current_level
      current_index == LevelIndex(current_level)
      done == [s1 EXCEPT
                 !.progress.shapes[shape].levels[current_level].completed = TRUE]
  IN  IF current_index < Len(LEVEL_ORDER)
        THEN LET next_level == LEVEL_ORDER[current_index + 1]
                 last_level == LEVEL_ORDER[Len(LEVEL_ORDER)]
             IN  [session |->
                    [done EXCEPT
                       !.progress.shapes[shape].current_level = next_level,
                       !.progress.shapes[shape].levels[last_level].unlocked = TRUE],
                  result |-> [advanced |-> TRUE, new_level |-> next_level,
                              shape_mastered |-> FALSE]]
        ELSE [session |-> [done EXCEPT !.progress.shapes[shape].mastered = TRUE],
              result |-> [advanced |-> FALSE, new_level |-> "none",
                          shape_mastered |-> TRUE]]

\* (mutant) the level that is left is not marked completed
advance_level_leaves_open(sess, shape) ==
  LET s1 == init_progress(sess)
      current_level == s1.progress.shapes[shape].current_level
      current_index == LevelIndex(current_level)
  IN  IF current_index < Len(LEVEL_ORDER)
        THEN LET next_level == LEVEL_ORDER[current_index + 1]
             IN  [session |->
                    [s1 EXCEPT
                       !.progress.shapes[shape].current_level = next_level,
                       !.progress.shapes[shape].levels[next_level].unlocked = TRUE],
                  result |-> [advanced |-> TRUE, new_level |-> next_level,
                              shape_mastered |-> FALSE]]
        ELSE [session |->
                [s1 EXCEPT
                   !.progress.shapes[shape].levels[current_level].completed = TRUE,
                   !.progress.shapes[shape].mastered = TRUE],
              result |-> [advanced |-> FALSE, new_level |-> "none",
                          shape_mastered |-> TRUE]]

advance_level(sess, shape) ==
  LET s1 == init_progress(sess)
      current_level == s1.progress.shapes[shape].current_level
      current_index == LevelIndex(current_level)
      done == [s1 EXCEPT
                 !.progress.shapes[shape].levels[current_level].completed = TRUE]
  IN  IF current_index < Len(LEVEL_ORDER)
        THEN LET next_level == LEVEL_ORDER[current_index + 1]
             IN  [session |->
                    [done EXCEPT
                       !.progress.shapes[shape].current_level = next_level,
                       !.progress.shapes[shape].levels[next_level].unlocked = TRUE],
                  result |-> [advanced |-> TRUE, new_level |-> next_level,
                              shape_mastered |-> FALSE]]
        ELSE [session |-> [done EXCEPT !.progress.shapes[shape].mastered = TRUE],
              result |-> [advanced |-> FALSE, new_level |-> "none",
                          shape_mastered |-> TRUE]]

\* (mutant) lst[:n]: the first n are kept
KeepLast_first(lst, n) ==
  IF Len(lst) > n THEN SubSeq(lst, 1, n) ELSE lst

\* lst[-n:] when the list is longer than n
KeepLast(lst, n) ==
  IF Len(lst) > n THEN SubSeq(lst, Len(lst) - n + 1, Len(lst)) ELSE lst

\* (mutant) the level's attempts are counted for wrong answers only
update_progress_attempts_when_wrong(sess, shape, level, is_correct) ==
  LET s1 == init_progress(sess)
      p  == s1.progress
      ld == p.shapes[shape].levels[level]
      level_data ==
        [ld EXCEPT !.attempts = IF is_correct THEN @ ELSE @ + 1,
                   !.correct = IF is_correct THEN @ + 1 ELSE @,
                   !.questions =
                      KeepLast(Append(@, [correct |-> is_correct]), QUESTIONS_KEPT)]
  IN  [s1 EXCEPT
         !.progress.total_attempts = @ + 1,
         !.progress.correct_answers = IF is_correct THEN @ + 1 ELSE @,
         !.progress.wrong_answers = IF is_correct THEN @ ELSE @ + 1,
         !.progress.shapes[shape].levels[level] = level_data,
         !.progress.history =
            KeepLast(Append(@, [shape |-> shape, level |-> level,
                                correct |-> is_correct]), HISTORY_KEPT)]

\* (mutant) no else: wrong_answers is counted for every answer
update_progress_wrong_always(sess, shape, level, is_correct) ==
  LET s1 == init_progress(sess)
      p  == s1.progress
      ld == p.shapes[shape].levels[level]
      level_data ==
        [ld EXCEPT !.attempts = @ + 1,
                   !.correct = IF is_correct THEN @ + 1 ELSE @,
                   !.questions =
                      KeepLast(Append(@, [correct |-> is_correct]), QUESTIONS_KEPT)]
  IN  [s1 EXCEPT
         !.progress.total_attempts = @ + 1,
         !.progress.correct_answers = IF is_correct THEN @ + 1 ELSE @,
         !.progress.wrong_answers = @ + 1,
         !.progress.shapes[shape].levels[level] = level_data,
         !.progress.history =
            KeepLast(Append(@, [shape |-> shape, level |-> level,
                                correct |-> is_correct]), HISTORY_KEPT)]

\* (mutant) no else branch: a wrong answer is not counted in wrong_answers
update_progress_skips_wrong(sess, shape, level, is_correct) ==
  LET s1 == init_progress(sess)
      p  == s1.progress
      ld == p.shapes[shape].levels[level]
      level_data ==
        [ld EXCEPT !.attempts = @ + 1,
                   !.correct = IF is_correct THEN @ + 1 ELSE @,
                   !.questions =
                      KeepLast(Append(@, [correct |-> is_correct]), QUESTIONS_KEPT)]
  IN  [s1 EXCEPT
         !.progress.total_attempts = @ + 1,
         !.progress.correct_answers = IF is_correct THEN @ + 1 ELSE @,
         !.progress.shapes[shape].levels[level] = level_data,
         !.progress.history =
            KeepLast(Append(@, [shape |-> shape, level |-> level,
                                correct |-> is_correct]), HISTORY_KEPT)]

\* The outcome entry keeps the 'correct' flag; the question text and the two
\* answers stored beside it are read nowhere.
update_progress(sess, shape, level, is_correct) ==
  LET s1 == init_progress(sess)
      p  == s1.progress
      ld == p.shapes[shape].levels[level]
      level_data ==
        [ld EXCEPT !.attempts = @ + 1,
                   !.correct = IF is_correct THEN @ + 1 ELSE @,
                   !.questions =
                      KeepLast(Append(@, [correct |-> is_correct]), QUESTIONS_KEPT)]
  IN  [s1 EXCEPT
         !.progress.total_attempts = @ + 1,
         !.progress.correct_answers = IF is_correct THEN @ + 1 ELSE @,
         !.progress.wrong_answers = IF is_correct THEN @ ELSE @ + 1,
         !.progress.shapes[shape].levels[level] = level_data,
         !.progress.history =
            KeepLast(Append(@, [shape |-> shape, level |-> level,
                                correct |-> is_correct]), HISTORY_KEPT)]

(***************************************************************************)
(* The answer evaluator of submit_answer.                                  *)
(***************************************************************************)
\* the tolerances 0.02 and 0.10
CORRECT_TOLERANCE == [num |-> 2, den |-> 100]
CLOSE_TOLERANCE == [num |-> 10, den |-> 100]

\* how many answer units make 1
ANSWER_UNIT == [per_one |-> 20000]

Abs(x) == IF x < 0 THEN -x ELSE x

\* The pairs <<user_answer, correct>> whose quotient abs(user - correct) /
\* correct is exactly 0.02 or 0.10 and comes out above the double 0.02 or
\* 0.10 in the code's double arithmetic, for the areas 4, 9, ..., 100 of the
\* beginner squares: 3.92 against 4 gives 0.020000000000000018.  The other
\* answers of the specifications that lie on a tolerance come out equal to
\* it, and none of them lies on a tolerance of another area.
ROUNDS_ABOVE ==
  {<<78400, 80000>>, <<81600, 80000>>, <<88000, 80000>>,
   <<162000, 180000>>, <<198000, 180000>>,
   <<313600, 320000>>, <<326400, 320000>>, <<352000, 320000>>,
   <<648000, 720000>>, <<792000, 720000>>,
   <<1254400, 1280000>>, <<1305600, 1280000>>, <<1408000, 1280000>>,
   <<1587600, 1620000>>, <<1652400, 1620000>>}

\* error <= frac, where error = abs(user - correct) / correct if correct != 0
\* else abs(user - correct); a negative correct answer makes error <= 0
ErrorAtMost(user_answer, correct, frac) ==
  CASE correct > 0 ->
         LET difference == Abs(user_answer - correct) * frac.den
             allowed == frac.num * correct
         IN  \/ difference < allowed
             \/ difference = allowed /\ <<user_answer, correct>> \notin ROUNDS_ABOVE
    [] correct < 0 -> TRUE
    [] OTHER       -> Abs(user_answer - correct) * frac.den
                         <= frac.num * ANSWER_UNIT.per_one

IsCorrect(user_answer, correct) ==
  ErrorAtMost(user_answer, correct, CORRECT_TOLERANCE)

IsClose(user_answer, correct) ==
  ErrorAtMost(user_answer, correct, CLOSE_TOLERANCE)
    /\ ~IsCorrect(user_answer, correct)

(***************************************************************************)
(* Responses.                                                              *)
(***************************************************************************)
NoStatus ==
  [can_advance |-> FALSE, level_complete |-> FALSE, needs_help |-> FALSE,
   attempts |-> 0, correct |-> 0, required |-> 0]

\* level_up: None
NoLevelUp == [advanced |-> FALSE, new_level |-> "none", shape_mastered |-> FALSE]

\* a response without progress data
NoData == [none |-> TRUE]

\* a response that carries a status only
Reply(route, arg, status) ==
  [route |-> route, arg |-> arg, status |-> status, level |-> "none",
   data |-> NoData, error |-> "none", is_correct |-> FALSE, is_close |-> FALSE,
   level_status |-> NoStatus, level_up |-> NoLevelUp, ai_tutor |-> "none"]

\* jsonify({'error': ...}), status
Refused(sess, route, arg, status, error) ==
  [session |-> sess,
   response |-> [Reply(route, arg, status) EXCEPT !.error = error]]

\* require_session: the redirect to index of a request without student_id
Redirected(sess, route, arg) ==
  [session |-> sess, response |-> Reply(route, arg, 302)]

(***************************************************************************)
(* The request handlers.                                                   *)
(***************************************************************************)
\* GET /
index(sess) ==
  [session |->
     IF "student_id" \notin sess.keys
       THEN init_progress([sess EXCEPT !.keys = @ \cup {"student_id"}])
       ELSE sess,
   response |-> [Reply("index", "", 200) EXCEPT !.ai_tutor = "welcome"]]

\* GET /practice/<shape_name>; an unknown shape name is a KeyError: 500
practice(sess, shape_name, draw) ==
  IF "student_id" \notin sess.keys THEN Redirected(sess, "practice", shape_name)
  ELSE
    LET s1 == init_progress(sess)
    IN  IF shape_name \notin DOMAIN s1.progress.shapes
          THEN Refused(s1, "practice", shape_name, 500, "Server error")
          ELSE
            LET current_level == s1.progress.shapes[shape_name].current_level
                question == generate_question(shape_name, current_level, draw)
                s2 == [s1 EXCEPT !.keys = @ \cup {"current_question"},
                                 !.current_question = question]
                level_progress == check_level_progress(s2, shape_name, current_level)
            IN  [session |-> level_progress.session,
                 response |->
                   [Reply("practice", shape_name, 200) EXCEPT
                      !.level = current_level,
                      !.level_status = level_progress.result,
                      !.ai_tutor = "start_level"]]

\* (mutant) needs_help is looked at before is_close
Feedback_struggling_first(is_correct, is_close, level_status, level_up) ==
  CASE is_correct /\ level_status.can_advance /\ level_up.shape_mastered
         -> "level_complete"
    [] is_correct /\ level_status.can_advance /\ ~level_up.shape_mastered
         -> "level_up"
    [] is_correct /\ ~level_status.can_advance -> "correct"
    [] ~is_correct /\ level_status.needs_help -> "struggling"
    [] ~is_correct /\ ~level_status.needs_help /\ is_close -> "close"
    [] OTHER -> "wrong"

\* the feedback category of an accepted answer
Feedback(is_correct, is_close, level_status, level_up) ==
  CASE is_correct /\ level_status.can_advance /\ level_up.shape_mastered
         -> "level_complete"
    [] is_correct /\ level_status.can_advance /\ ~level_up.shape_mastered
         -> "level_up"
    [] is_correct /\ ~level_status.can_advance -> "correct"
    [] ~is_correct /\ is_close -> "close"
    [] ~is_correct /\ ~is_close /\ level_status.needs_help -> "struggling"
    [] OTHER -> "wrong"

\* submit_answer from `correct = question['correct_answer']` on: the answer
\* is scored, counted, and the level advanced
score_answer(sess, user_answer) ==
  LET question == sess.current_question
      correct == question.correct_answer
      shape == question.shape
      level == question.level
      is_correct == IsCorrect(user_answer, correct)
      is_close == IsClose(user_answer, correct)
      s1 == [sess EXCEPT !.current_question.user_answer = <<user_answer>>]
      s2 == update_progress(s1, shape, level, is_correct)
      level_status == check_level_progress(s2, shape, level)
      advance_result ==
        IF is_correct /\ level_status.result.can_advance
          THEN advance_level(level_status.session, shape)
          ELSE [session |-> level_status.session, result |-> NoLevelUp]
  IN  [session |-> advance_result.session,
       response |->
         [Reply("submit_answer", "", 200) EXCEPT
            !.level = level,
            !.is_correct = is_correct,
            !.is_close = is_close,
            !.level_status = level_status.result,
            !.level_up = advance_result.result,
            !.ai_tutor = Feedback(is_correct, is_close, level_status.result,
                                  advance_result.result)]]

\* (mutant) no `if not question`: question['correct_answer'] of None is a
\* TypeError
submit_answer_unchecked(sess, body) ==
  IF "student_id" \notin sess.keys THEN Redirected(sess, "submit_answer", "")
  ELSE IF body.kind = "text"
    THEN Refused(sess, "submit_answer", "", 400, "Please enter a valid number")
  ELSE IF body.kind # "number" \/ "current_question" \notin sess.keys
    THEN Refused(sess, "submit_answer", "", 500, "str(e)")
  ELSE score_answer(sess, body.user_answer)

\* POST /api/submit-answer.  float(data['user_answer']) comes first: a text
\* that is no number is a ValueError (400); no JSON body, no 'user_answer'
\* key and a null value are other exceptions (500).
submit_answer(sess, body) ==
  IF "student_id" \notin sess.keys THEN Redirected(sess, "submit_answer", "")
  ELSE IF body.kind = "text"
    THEN Refused(sess, "submit_answer", "", 400, "Please enter a valid number")
  ELSE IF body.kind # "number"
    THEN Refused(sess, "submit_answer", "", 500, "str(e)")
  ELSE IF "current_question" \notin sess.keys
    THEN Refused(sess, "submit_answer", "", 400, "No active question")
  ELSE score_answer(sess, body.user_answer)

\* round(num / den) of Python 3: to the nearest integer, a tie to the even one
RoundHalfEven(num, den) ==
  LET q == num \div den
      r == num % den
  IN  IF 2 * r < den \/ (2 * r = den /\ q % 2 = 0) THEN q ELSE q + 1

\* the entries of history[-10:]
HISTORY_SHOWN == 10

\* (mutant) a level's 'correct' is filled from its attempts
get_progress_data_correct_from_attempts(sess) ==
  LET s1 == init_progress(sess)
      progress == s1.progress
      levels_data(data) ==
        [level \in Levels |->
           LET level_info == data.levels[level]
           IN  [unlocked  |-> level_info.unlocked,
                completed |-> level_info.completed,
                attempts  |-> level_info.attempts,
                correct   |-> level_info.attempts,
                accuracy  |-> IF level_info.attempts > 0
                                THEN RoundHalfEven(level_info.correct * 100,
                                                   level_info.attempts)
                                ELSE 0,
                config    |-> LEVELS[level]]]
  IN  [session |-> s1,
       data |->
         [accuracy |-> IF progress.total_attempts > 0
                         THEN RoundHalfEven(progress.correct_answers * 1000,
                                            progress.total_attempts)
                         ELSE 0,
          total_attempts  |-> progress.total_attempts,
          correct_answers |-> progress.correct_answers,
          wrong_answers   |-> progress.wrong_answers,
          shapes |-> [shape \in Shapes |->
                        [current_level |-> progress.shapes[shape].current_level,
                         mastered |-> progress.shapes[shape].mastered,
                         levels |-> levels_data(progress.shapes[shape])]],
          shapes_mastered |->
            Cardinality({shape \in Shapes : progress.shapes[shape].mastered}),
          history |-> KeepLast(progress.history, HISTORY_SHOWN)]]

\* get_progress_data.  accuracy is in tenths of a percent (round(..., 1)), a
\* level's accuracy in percent (round(...)).
get_progress_data(sess) ==
  LET s1 == init_progress(sess)
      progress == s1.progress
      levels_data(data) ==
        [level \in Levels |->
           LET level_info == data.levels[level]
           IN  [unlocked  |-> level_info.unlocked,
                completed |-> level_info.completed,
                attempts  |-> level_info.attempts,
                correct   |-> level_info.correct,
                accuracy  |-> IF level_info.attempts > 0
                                THEN RoundHalfEven(level_info.correct * 100,
                                                   level_info.attempts)
                                ELSE 0,
                config    |-> LEVELS[level]]]
  IN  [session |-> s1,
       data |->
         [accuracy |-> IF progress.total_attempts > 0
                         THEN RoundHalfEven(progress.correct_answers * 1000,
                                            progress.total_attempts)
                         ELSE 0,
          total_attempts  |-> progress.total_attempts,
          correct_answers |-> progress.correct_answers,
          wrong_answers   |-> progress.wrong_answers,
          shapes |-> [shape \in Shapes |->
                        [current_level |-> progress.shapes[shape].current_level,
                         mastered |-> progress.shapes[shape].mastered,
                         levels |-> levels_data(progress.shapes[shape])]],
          shapes_mastered |->
            Cardinality({shape \in Shapes : progress.shapes[shape].mastered}),
          history |-> KeepLast(progress.history, HISTORY_SHOWN)]]

\* GET /api/progress
get_progress(sess) ==
  IF "student_id" \notin sess.keys THEN Redirected(sess, "get_progress", "")
  ELSE
    LET progress == get_progress_data(sess)
    IN  [session |-> progress.session,
         response |->
           [Reply("get_progress", "", 200) EXCEPT !.data = progress.data]]

\* (mutant) a name that is no shape is looked up with [] instead of .get():
\* the KeyError is answered 500
get_shape_progress_by_index(sess, shape_name) ==
  IF "student_id" \notin sess.keys
    THEN Redirected(sess, "get_shape_progress", shape_name)
  ELSE
    LET progress == get_progress_data(sess)
    IN  IF shape_name \in DOMAIN progress.data.shapes
          THEN [session |-> progress.session,
                response |->
                  [Reply("get_shape_progress", shape_name, 200) EXCEPT
                     !.data = progress.data.shapes[shape_name]]]
          ELSE Refused(progress.session, "get_shape_progress", shape_name,
                       500, "str(e)")

\* GET /api/shape-progress/<shape_name>
get_shape_progress(sess, shape_name) ==
  IF "student_id" \notin sess.keys
    THEN Redirected(sess, "get_shape_progress", shape_name)
  ELSE
    LET progress == get_progress_data(sess)
    IN  IF shape_name \in DOMAIN progress.data.shapes
          THEN [session |-> progress.session,
                response |->
                  [Reply("get_shape_progress", shape_name, 200) EXCEPT
                     !.data = progress.data.shapes[shape_name]]]
          ELSE Refused(progress.session, "get_shape_progress", shape_name,
                       404, "Shape not found")

\* (mutant) session.pop('student_id') for session.clear()
reset_identity_only(sess) ==
  [session |-> [sess EXCEPT !.keys = @ \ {"student_id"}],
   response |-> Reply("reset", "", 302)]

\* GET /reset: session.clear()
reset(sess) ==
  [session |-> EmptySession, response |-> Reply("reset", "", 302)]

\* (mutant) every shape is reset
reset_shape_all(sess, shape_name) ==
  IF "student_id" \notin sess.keys THEN Redirected(sess, "reset_shape", shape_name)
  ELSE
    LET s1 == init_progress(sess)
    IN  [session |->
           IF shape_name \in DOMAIN s1.progress.shapes
             THEN [s1 EXCEPT !.progress.shapes =
                               [s \in Shapes |-> create_shape_progress]]
             ELSE s1,
         response |-> Reply("reset_shape", shape_name, 302)]

\* GET /reset-shape/<shape_name>; answers with a redirect to practice
reset_shape(sess, shape_name) ==
  IF "student_id" \notin sess.keys THEN Redirected(sess, "reset_shape", shape_name)
  ELSE
    LET s1 == init_progress(sess)
    IN  [session |->
           IF shape_name \in DOMAIN s1.progress.shapes
             THEN [s1 EXCEPT !.progress.shapes[shape_name] = create_shape_progress]
             ELSE s1,
         response |-> Reply("reset_shape", shape_name, 302)]

(***************************************************************************)
(* The specifications: one action per request.                             *)
(*   Spec        one shape in depth, with the requests that are in error   *)
(*   SpecShapes  two shapes, well-formed requests                          *)
(***************************************************************************)
\* the draws a practice request for the name can make in this session
DrawsFor(sess, shape_name) ==
  IF shape_name \in Shapes
    THEN Draws(shape_name, sess.progress.shapes[shape_name].current_level)
    ELSE {<<0, 0>>}

\* the answers a visitor gives to a question: the right one, one 5% above
\* it, and 0
UserAnswers(question) ==
  {question.correct_answer,
   question.correct_answer + question.correct_answer \div 20,
   0}

Bodies(sess, bad) ==
  [kind : {"number"}, user_answer : UserAnswers(sess.current_question)]
    \cup [kind : bad, user_answer : {0}]

\* the entries of the history that are about the shape
Answered(sess, shape) ==
  Cardinality({i \in 1..Len(sess.progress.history) :
                 sess.progress.history[i].shape = shape})

Init ==
  /\ session = EmptySession
  /\ response = Reply("none", "", 0)

Index ==
  LET r == index(session)
  IN  /\ session' = r.session
      /\ response' = r.response

Practice(names) ==
  \E shape_name \in names :
    \E draw \in DrawsFor(session, shape_name) :
      LET r == practice(session, shape_name, draw)
      IN  /\ session' = r.session
          /\ response' = r.response

SubmitAnswer(max, bad) ==
  /\ session.progress.total_attempts < max
  /\ \E body \in Bodies(session, bad) :
       LET r == submit_answer(session, body)
       IN  /\ session' = r.session
           /\ response' = r.response

Reset ==
  LET r == reset(session)
  IN  /\ session' = r.session
      /\ response' = r.response

ResetShape(names) ==
  \E shape_name \in names :
    LET r == reset_shape(session, shape_name)
    IN  /\ session' = r.session
        /\ response' = r.response

GetProgress ==
  LET r == get_progress(session)
  IN  /\ session' = r.session
      /\ response' = r.response

GetShapeProgress(names) ==
  \E shape_name \in names :
    LET r == get_shape_progress(session, shape_name)
    IN  /\ session' = r.session
        /\ response' = r.response

Next ==
  \/ Index
  \/ Practice(ShapeNames)
  \/ SubmitAnswer(MaxSubmits, BadBodies)
  \/ Reset
  \/ ResetShape(ShapeNames)

Spec == Init /\ [][Next]_vars

\* a question about OtherShape is answered MaxOtherSubmits times at most
OtherBudget ==
  session.current_question.shape = OtherShape
    => Answered(session, OtherShape) < MaxOtherSubmits

SubmitAnswerShapes == OtherBudget /\ SubmitAnswer(MaxShapeSubmits, {})

NextShapes ==
  \/ Index
  \/ Practice(TwoShapes)
  \/ SubmitAnswerShapes
  \/ Reset
  \/ ResetShape(TwoShapes)

SpecShapes == Init /\ [][NextShapes]_vars

(***************************************************************************)
(*   SpecRead    one shape, with the two requests that report the progress *)
(***************************************************************************)
NextRead ==
  \/ Index
  \/ Practice(ShapeNames)
  \/ SubmitAnswer(MaxReadSubmits, {})
  \/ GetProgress
  \/ GetShapeProgress(ShapeNames)
  \/ Reset

SpecRead == Init /\ [][NextRead]_vars

(***************************************************************************)
(*   SpecFull    the outcome lists about to be full: a visitor who has     *)
(*               answered beginner questions about the square, every third *)
(*               one correctly, until MaxFullSubmits answers before one of *)
(*               the list bounds, and goes on until MaxFullSubmits after   *)
(***************************************************************************)
\* practice and submit_answer, every third answer the correct one, until n
\* answers are counted
RECURSIVE Replay(_, _)
Replay(r, n) ==
  IF r.session.progress.total_attempts >= n THEN r
  ELSE
    LET asked == practice(r.session, "square",
                          CHOOSE draw \in Draws("square", "beginner") : TRUE)
        correct == asked.session.current_question.correct_answer
        third == (r.session.progress.total_attempts + 1) % 3 = 0
    IN  Replay(submit_answer(asked.session,
                             [kind |-> "number",
                              user_answer |-> IF third THEN correct ELSE 0]),
               n)

\* the number of answers is within MaxFullSubmits of a list bound
NearBound(total) ==
  \E bound \in {QUESTIONS_KEPT, HISTORY_KEPT} :
    /\ bound - MaxFullSubmits <= total
    /\ total < bound + MaxFullSubmits

InitFull ==
  \E bound \in {QUESTIONS_KEPT, HISTORY_KEPT} :
    LET r == Replay(index(EmptySession), bound - MaxFullSubmits)
    IN  /\ session = r.session
        /\ response = r.response

SubmitAnswerFull ==
  /\ NearBound(session.progress.total_attempts)
  /\ SubmitAnswer(HISTORY_KEPT + MaxFullSubmits, {})

NextFull ==
  \/ Practice({"square"})
  \/ SubmitAnswerFull

SpecFull == InitFull /\ [][NextFull]_vars

(***************************************************************************)
(*   SpecEval    the answer evaluator: a new visitor asks for a beginner   *)
(*               question about a square or a circle, with every draw of   *)
(*               the level, and answers it MaxEvalSubmits times at most    *)
(***************************************************************************)
\* every draw of a beginner question: whole numbers of the range
EvalDraws(shape) ==
  LET lo == IF shape = "circle" THEN ranges("beginner").min \div 2
                                ELSE ranges("beginner").min
      hi == IF shape = "circle" THEN ranges("beginner").max \div 2
                                ELSE ranges("beginner").max
  IN  {<<v, v>> : v \in {x \in lo..hi : x % 100 = 0}}

\* the answers 16.3 and 25 of the examples
EXAMPLE_ANSWERS == {326000, 500000}

\* the answers given: 85%, 86%, ..., 115% of the correct one, and the examples
EvalAnswers(question) ==
  {(question.correct_answer * percent) \div 100 : percent \in 85..115}
    \cup EXAMPLE_ANSWERS

InitEval ==
  \E shape \in {"square", "circle"} :
    \E draw \in EvalDraws(shape) :
      LET r == practice(index(EmptySession).session, shape, draw)
      IN  /\ session = r.session
          /\ response = r.response

Evaluate ==
  /\ session.progress.total_attempts < MaxEvalSubmits
  /\ \E user_answer \in EvalAnswers(session.current_question) :
       LET r == submit_answer(session, [kind |-> "number",
                                        user_answer |-> user_answer])
       IN  /\ session' = r.session
           /\ response' = r.response

SpecEval == InitEval /\ [][Evaluate]_vars

(***************************************************************************)
(*   SpecGenerate  the question generator: generate_question is called     *)
(*                 for every shape name and level, with draws from both    *)
(*                 ends of each parameter's range                          *)
(***************************************************************************)
\* the range the i-th parameter of the shape is drawn from
DrawRange(shape, level, i) ==
  LET rg == ranges(level)
  IN  CASE shape = "rectangle" /\ i = 2 ->
             [min |-> rg.min, max |-> (rg.max * 7) \div 10]
        [] shape = "triangle" /\ i = 2 ->
             [min |-> rg.min, max |-> (rg.max * 8) \div 10]
        [] shape = "circle" ->
             [min |-> rg.min \div 2, max |-> rg.max \div 2]
        [] OTHER -> [min |-> rg.min, max |-> rg.max]

\* round(x, decimal_places) leaves a multiple of this
Step(level) ==
  CASE ranges(level).decimal_places = 0 -> 100
    [] ranges(level).decimal_places = 1 -> 10
    [] OTHER -> 1

\* the MaxDraws lowest and the MaxDraws highest rounded values of the range
GenValues(shape, level, i) ==
  LET rg == DrawRange(shape, level, i)
      reach == (MaxDraws - 1) * Step(level)
  IN  {v \in rg.min..rg.max :
         /\ v % Step(level) = 0
         /\ v <= rg.min + reach \/ v >= rg.max - reach}

GenDraws(shape, level) ==
  CASE shape \in {"rectangle", "triangle"} ->
         GenValues(shape, level, 1) \X GenValues(shape, level, 2)
    [] shape \in {"square", "circle"} ->
         {<<v, v>> : v \in GenValues(shape, level, 1)}
    [] OTHER -> {<<0, 0>>}

InitGenerate ==
  LET r == index(EmptySession)
  IN  /\ session = r.session
      /\ response = r.response

\* question = generate_question(shape, level); session['current_question']
\* = question
Generate ==
  \E shape \in Shapes \cup ShapeNames :
    \E level \in Levels :
      \E draw \in GenDraws(shape, level) :
        /\ session' =
             [session EXCEPT
                !.keys = @ \cup {"current_question"},
                !.current_question = generate_question(shape, level, draw)]
        /\ response' =
             [Reply("generate_question", shape, 200) EXCEPT !.level = level]

SpecGenerate == InitGenerate /\ [][Generate]_vars

(***************************************************************************)
(*   SpecLive    a visitor who keeps asking for a question about the       *)
(*               square and answering it correctly, and who gives          *)
(*               MaxLiveWrong wrong answers at most, at any time           *)
(***************************************************************************)
\* the answers a visitor needs at most to master a shape: 5 for each level,
\* and for each wrong answer that answer and the 4 correct ones that make
\* up for it at the threshold 0.8
LiveSubmits ==
  LET per_wrong == LEVELS["expert"].pass_threshold.den
  IN  Len(LEVEL_ORDER) * LEVELS["expert"].questions_required
        + per_wrong * MaxLiveWrong

InitLive ==
  LET r == index(EmptySession)
  IN  /\ session = r.session
      /\ response = r.response

\* the visitor has a question that has not been answered, and the square is
\* still to be mastered
CanAnswer ==
  /\ "current_question" \in session.keys
  /\ session.current_question.user_answer = <<>>
  /\ ~session.progress.shapes["square"].mastered
  /\ session.progress.total_attempts < LiveSubmits

\* a question that has not been answered is answered correctly
AnswerCorrectly ==
  /\ CanAnswer
  /\ LET r == submit_answer(session,
                            [kind |-> "number",
                             user_answer |->
                               session.current_question.correct_answer])
     IN  /\ session' = r.session
         /\ response' = r.response

\* the active question, answered or not, is answered with 0
AnswerWrongly ==
  /\ "current_question" \in session.keys
  /\ session.progress.wrong_answers < MaxLiveWrong
  /\ LET r == submit_answer(session, [kind |-> "number", user_answer |-> 0])
     IN  /\ session' = r.session
         /\ response' = r.response

NextLive ==
  \/ Practice({"square"})
  \/ AnswerCorrectly
  \/ AnswerWrongly

\* the visitor keeps asking and keeps answering correctly: weak fairness of
\* both steps.  That of AnswerCorrectly, WF_vars(AnswerCorrectly), is written
\* out, with CanAnswer for ENABLED <<AnswerCorrectly>>_vars: an accepted
\* answer always changes the counters of the session.
SpecLive ==
  /\ InitLive
  /\ [][NextLive]_vars
  /\ WF_vars(Practice({"square"}))
  /\ ([]<>(~CanAnswer) \/ []<><<AnswerCorrectly>>_vars)

(***************************************************************************)
(* Vocabulary of the properties.                                           *)
(***************************************************************************)
\* the last request was a submission that was accepted (answered 200)
Accepted(resp) == resp.route = "submit_answer" /\ resp.status = 200

\* the level's counters meet its own attempt count and pass threshold
MeetsThreshold(sess, shape, level) ==
  LET ld == sess.progress.shapes[shape].levels[level]
  IN  /\ ld.attempts >= LEVELS[level].questions_required
      /\ ld.correct * LEVELS[level].pass_threshold.den
           >= LEVELS[level].pass_threshold.num * ld.attempts

\* current_level, the unlocked and completed flags, and mastered of a shape
Progression(sess, shape) ==
  LET sp == sess.progress.shapes[shape]
  IN  [current_level |-> sp.current_level,
       unlocked  |-> [l \in Levels |-> sp.levels[l].unlocked],
       completed |-> [l \in Levels |-> sp.levels[l].completed],
       mastered  |-> sp.mastered]

\* attempts and correct of every shape and level, and the global counters
Counters(sess) ==
  [total_attempts |-> sess.progress.total_attempts,
   correct_answers |-> sess.progress.correct_answers,
   wrong_answers |-> sess.progress.wrong_answers,
   levels |-> [s \in Shapes |-> [l \in Levels |->
                 <<sess.progress.shapes[s].levels[l].attempts,
                   sess.progress.shapes[s].levels[l].correct>>]]]

(***************************************************************************)
(* C1.  On every accepted submission for a question at (shape, level), the *)
(* shape advances in that step if and only if, after counting the answer,  *)
(* the level has attempts >= questions_required and correct/attempts >=    *)
(* pass_threshold.  Violated: submit_answer calls advance_level only when  *)
(* the answer it has just counted is itself correct.                       *)
(***************************************************************************)
C1_AdvanceIffThreshold ==
  [][Accepted(response') =>
       LET q == session.current_question
       IN  (Progression(session', q.shape) # Progression(session, q.shape))
             <=> MeetsThreshold(session', q.shape, q.level)]_vars

(***************************************************************************)
(* C2.  A (shape, level) is marked completed only in a step in which that  *)
(* same level has attempts >= questions_required and correct/attempts >=   *)
(* pass_threshold.  Violated: the thresholds are checked for the level of  *)
(* the question, and the level that is completed is the shape's            *)
(* current_level; a question answered again after the level-up completes   *)
(* the next level with no attempt at it.                                   *)
(***************************************************************************)
C2_CompletedOnlyWhenMet ==
  [][\A s \in Shapes : \A l \in Levels :
       (~session.progress.shapes[s].levels[l].completed
          /\ session'.progress.shapes[s].levels[l].completed)
         => MeetsThreshold(session', s, l)]_vars

(***************************************************************************)
(* C3.  When an advance fires for a shape whose current level is L: L is   *)
(* completed afterwards; if L is not expert, the next level of LEVEL_ORDER *)
(* is unlocked and is the current level and the unlocked flag of no other  *)
(* level changes; if L is expert, mastered is true and current_level stays *)
(* expert; the progress of every other shape is unchanged.                 *)
(***************************************************************************)
\* the submission just answered called advance_level
AdvanceFired(resp) ==
  Accepted(resp) /\ (resp.level_up.advanced \/ resp.level_up.shape_mastered)

C3_AdvanceEffect ==
  [][AdvanceFired(response') =>
       LET shape == session.current_question.shape
           L  == session.progress.shapes[shape].current_level
           before == session.progress.shapes[shape]
           after  == session'.progress.shapes[shape]
       IN  /\ after.levels[L].completed
           /\ L # "expert" =>
                LET next == LEVEL_ORDER[LevelIndex(L) + 1]
                IN  /\ after.levels[next].unlocked
                    /\ after.current_level = next
                    /\ \A l \in Levels \ {next} :
                         after.levels[l].unlocked = before.levels[l].unlocked
           /\ L = "expert" => after.mastered /\ after.current_level = "expert"
           /\ \A other \in Shapes \ {shape} :
                session'.progress.shapes[other] = session.progress.shapes[other]]_vars

\* an advance has fired at the expert level, after those of the levels below
C3_Witness ==
  /\ AdvanceFired(response)
  /\ response.level_up.shape_mastered
  /\ session.progress.shapes["square"].mastered
  /\ session.progress.shapes["square"].levels["intermediate"].unlocked

(***************************************************************************)
(* C4.  Once an answer to the active question has been accepted, a second  *)
(* submission of a number without a practice request in between is         *)
(* answered 400 and changes no counter and no progression state.           *)
(* Violated: submit_answer leaves session['current_question'] in place.    *)
(***************************************************************************)
C4_AnsweredQuestionIsGone ==
  [][(Accepted(response) /\ response'.route = "submit_answer"
        /\ response'.status \in {200, 400})
       => /\ response'.status = 400
          /\ Counters(session') = Counters(session)
          /\ \A s \in Shapes : Progression(session', s) = Progression(session, s)]_vars

(***************************************************************************)
(* C5.  In every reachable state, for every shape and level,               *)
(* 0 <= correct <= attempts.                                               *)
(***************************************************************************)
C5_CorrectAtMostAttempts ==
  \A s \in Shapes : \A l \in Levels :
    LET ld == session.progress.shapes[s].levels[l]
    IN  0 <= ld.correct /\ ld.correct <= ld.attempts

\* a level with right and wrong answers counted, after a single-shape reset
\* took place in the session
C5_Witness ==
  /\ \E l \in Levels :
       LET ld == session.progress.shapes["square"].levels[l]
       IN  0 < ld.correct /\ ld.correct < ld.attempts
  /\ session.progress.total_attempts
       > session.progress.shapes["square"].levels["beginner"].attempts
         + session.progress.shapes["square"].levels["intermediate"].attempts
         + session.progress.shapes["square"].levels["expert"].attempts

(***************************************************************************)
(* C6.  Level unlock is monotonic: from the creation of a shape's progress *)
(* until that shape or the whole record is reset, a level whose unlocked   *)
(* flag is true keeps it true in every later state.                        *)
(***************************************************************************)
\* the request just answered reset the shape's progress
ResetOf(resp, shape) ==
  resp.route = "reset" \/ (resp.route = "reset_shape" /\ resp.arg = shape)

C6_UnlockMonotonic ==
  [][\A s \in Shapes : \A l \in Levels :
       (session.progress.shapes[s].levels[l].unlocked /\ ~ResetOf(response', s))
         => session'.progress.shapes[s].levels[l].unlocked]_vars

\* a wrong answer has been counted at beginner after expert was unlocked:
\* the three levels are still unlocked
C6_Witness ==
  /\ Accepted(response) /\ ~response.is_correct
  /\ session.current_question.level = "beginner"
  /\ session.progress.shapes["square"].current_level = "expert"
  /\ \A l \in Levels : session.progress.shapes["square"].levels[l].unlocked

(***************************************************************************)
(* C7.  In every reachable state, a shape whose mastered flag is true has  *)
(* its expert level marked completed.                                      *)
(***************************************************************************)
C7_MasteredImpliesExpertCompleted ==
  \A s \in Shapes :
    session.progress.shapes[s].mastered
      => session.progress.shapes[s].levels["expert"].completed

\* a mastered shape
C7_Witness ==
  \E s \in Shapes :
    /\ session.progress.shapes[s].mastered
    /\ session.progress.shapes[s].current_level = "expert"

(***************************************************************************)
(* C8.  check_level_progress reports needs_help = true exactly when        *)
(* (attempts >= questions_required and correct/attempts < 0.4) or the last *)
(* 3 recorded outcomes of the level are all incorrect; fewer than 3        *)
(* recorded outcomes never raise it through the streak.                    *)
(***************************************************************************)
\* the response carries the result of check_level_progress for the level
\* of the session's question
Checked(resp) ==
  resp.route \in {"practice", "submit_answer"} /\ resp.status = 200

C8_NeedsHelpExactly ==
  Checked(response) =>
    LET q  == session.current_question
        ld == session.progress.shapes[q.shape].levels[q.level]
        n  == Len(ld.questions)
        low == /\ ld.attempts >= LEVELS[q.level].questions_required
               /\ ld.correct * 10 < 4 * ld.attempts
        streak == /\ n >= 3
                  /\ ~ld.questions[n].correct
                  /\ ~ld.questions[n - 1].correct
                  /\ ~ld.questions[n - 2].correct
    IN  response.level_status.needs_help <=> (low \/ streak)

\* three wrong answers in a row raise it when the attempt count is met and
\* the accuracy is not below 0.4
C8_Witness ==
  /\ Accepted(response)
  /\ response.level_status.needs_help
  /\ response.level_status.attempts >= response.level_status.required
  /\ response.level_status.correct * 10 >= 4 * response.level_status.attempts

(***************************************************************************)
(* C9.  The needs-help signal never affects progression state: a request   *)
(* that only computes it (practice) leaves the progress record as it was,  *)
(* and the progression an accepted submission leaves is decided by         *)
(* is_correct and can_advance alone: that of advance_level when both hold, *)
(* the one before the step otherwise, whatever needs_help is.              *)
(***************************************************************************)
C9_NeedsHelpNoEffect ==
  [][/\ (response'.route = "practice" /\ "progress" \in session.keys)
          => session'.progress = session.progress
     /\ Accepted(response') =>
          LET shape == session.current_question.shape
              advanced == advance_level(session, shape).session
          IN  \A s \in Shapes :
                Progression(session', s) =
                  IF response'.is_correct /\ response'.level_status.can_advance
                    THEN Progression(advanced, s)
                    ELSE Progression(session, s)]_vars

\* a wrong answer was accepted with needs_help raised
C9_Witness ==
  /\ Accepted(response)
  /\ response.level_status.needs_help
  /\ response.ai_tutor = "struggling"

(***************************************************************************)
(* C10.  GET /reset-shape/{shape} for a known shape sets that shape's      *)
(* progress to the initial state (current_level beginner, only beginner    *)
(* unlocked, all attempts and correct 0, nothing completed, outcomes       *)
(* empty, mastered false) and leaves the progress of every other shape     *)
(* unchanged.                                                              *)
(***************************************************************************)
C10_ResetShapeFrame ==
  [][(response'.route = "reset_shape" /\ response'.arg \in Shapes
        /\ "student_id" \in session.keys)
       => LET sp == session'.progress.shapes[response'.arg]
          IN  /\ "progress" \in session'.keys
              /\ sp.current_level = "beginner"
              /\ ~sp.mastered
              /\ \A l \in Levels :
                   /\ sp.levels[l].unlocked = (l = "beginner")
                   /\ sp.levels[l].attempts = 0
                   /\ sp.levels[l].correct = 0
                   /\ ~sp.levels[l].completed
                   /\ sp.levels[l].questions = <<>>
              /\ \A other \in Shapes \ {response'.arg} :
                   session'.progress.shapes[other]
                     = session.progress.shapes[other]]_vars

\* square has just been reset after five answers about it, and the answer
\* counted for the circle is still there
C10_Witness ==
  /\ response.route = "reset_shape" /\ response.arg = "square"
  /\ response.status = 302
  /\ Answered(session, "square") >= 5
  /\ session.progress.shapes["square"].levels["beginner"].attempts = 0
  /\ session.progress.shapes[OtherShape].levels["beginner"].attempts > 0

(***************************************************************************)
(* C11  A submission of an identified visitor whose body has no            *)
(* user_answer field, is no JSON, or whose user_answer is null or a text   *)
(* that is no number, is answered with status 400, and leaves the progress *)
(* record and the active question unchanged.                               *)
(***************************************************************************)
C11_BadBodyIs400 ==
  [][\A kind \in BadBodies :
       LET r == submit_answer(session, [kind |-> kind, user_answer |-> 0])
       IN  ("student_id" \in session.keys
              /\ session' = r.session /\ response' = r.response)
             => /\ response'.status = 400
                /\ session' = session]_vars

(***************************************************************************)
(* C12  A numeric answer submitted by an identified visitor who has no     *)
(* active question is answered with status 400, and every counter, the     *)
(* history and every progression flag of the record stay as they were.     *)
(***************************************************************************)
C12_NoQuestionIs400 ==
  [][\A body \in Bodies(session, {}) :
       LET r == submit_answer(session, body)
       IN  ("student_id" \in session.keys
              /\ "current_question" \notin session.keys
              /\ session' = r.session /\ response' = r.response)
             => /\ response'.status = 400
                /\ session'.progress = session.progress
                /\ "current_question" \notin session'.keys]_vars

\* a numeric answer of a visitor with a record and no active question has
\* just been refused
C12_Witness ==
  /\ response.route = "submit_answer" /\ response.status = 400
  /\ response.error = "No active question"
  /\ "student_id" \in session.keys
  /\ "current_question" \notin session.keys

(***************************************************************************)
(* C13  For every answer to a question with a positive correct answer,     *)
(* with error = |answer - correct| / correct: the answer is classified     *)
(* correct exactly when error <= 0.02, close exactly when 0.02 < error <=  *)
(* 0.10, and wrong (neither) exactly when error > 0.10; so exactly one of  *)
(* the three holds and a smaller error never gets a worse class.           *)
(***************************************************************************)
C13_ClassifiedByError ==
  (Accepted(response) /\ session.current_question.correct_answer > 0)
    => LET user_answer == session.current_question.user_answer[1]
           correct == session.current_question.correct_answer
           difference == Abs(user_answer - correct)
           within2 == difference * 100 <= 2 * correct
           within10 == difference * 100 <= 10 * correct
       IN  /\ response.is_correct <=> within2
           /\ response.is_close <=> (~within2 /\ within10)
           /\ (~response.is_correct /\ ~response.is_close) <=> ~within10

(***************************************************************************)
(* C14  Every accepted submission adds exactly 1 to total_attempts and to  *)
(* the attempts of the question's (shape, level).  It adds 1 to that       *)
(* level's correct and to correct_answers exactly when the answer was      *)
(* classified correct, and 1 to wrong_answers otherwise (a close answer    *)
(* counts as not correct).  attempts and correct of every other (shape,    *)
(* level) are unchanged.                                                   *)
(***************************************************************************)
C14_OneAnswerCounted ==
  [][Accepted(response')
       => LET shape == session.current_question.shape
              level == session.current_question.level
              before == Counters(session)
              after == Counters(session')
              gained == IF response'.is_correct THEN 1 ELSE 0
          IN  /\ after.total_attempts = before.total_attempts + 1
              /\ after.correct_answers = before.correct_answers + gained
              /\ after.wrong_answers = before.wrong_answers + (1 - gained)
              /\ after.levels[shape][level]
                   = <<before.levels[shape][level][1] + 1,
                       before.levels[shape][level][2] + gained>>
              /\ \A s \in Shapes : \A l \in Levels :
                   (s # shape \/ l # level)
                     => after.levels[s][l] = before.levels[s][l]]_vars

\* a close answer about the square has just been counted as a wrong one,
\* after a correct one, while the circle has an answer counted too
C14_Witness ==
  /\ Accepted(response) /\ response.is_close
  /\ session.current_question.shape = "square"
  /\ session.progress.wrong_answers > 0
  /\ session.progress.correct_answers > 0
  /\ session.progress.shapes[OtherShape].levels["beginner"].attempts > 0

(***************************************************************************)
(* C15  For every shape of square, rectangle, triangle, circle and every   *)
(* level, generate_question returns a question whose correct_answer is the *)
(* area formula of the shape applied to the question's own given           *)
(* parameters (s*s, l*w, b*h/2, pi*r*r) and whose shape and level are the  *)
(* arguments; for any other shape name it returns no question.             *)
(* With lengths in hundredths and areas in units of 1/20000, an area is    *)
(* twice the product of its two lengths.                                   *)
(***************************************************************************)
C15_AnswerIsAreaOfGiven ==
  response.route = "generate_question"
    => LET question == session.current_question
           given == question.given
       IN  IF response.arg \in {"square", "rectangle", "triangle", "circle"}
             THEN /\ question.shape = response.arg
                  /\ question.level = response.level
                  /\ question.correct_answer =
                       CASE question.shape = "square" ->
                              (given.side * given.side) * 2
                         [] question.shape = "rectangle" ->
                              (given.length * given.width) * 2
                         [] question.shape = "triangle" ->
                              ((given.base * given.height) * 2) \div 2
                         [] question.shape = "circle" ->
                              (((given.radius * given.radius) * 2 * PI.num)
                                 \div PI.den)
             ELSE question = NoQuestion

\* an expert triangle with a base and a height that differ
C15_Witness ==
  /\ response.route = "generate_question"
  /\ response.arg = "triangle" /\ response.level = "expert"
  /\ session.current_question.shape = "triangle"
  /\ session.current_question.given.base # session.current_question.given.height
  /\ session.current_question.correct_answer > 0

(***************************************************************************)
(* C17  GET /api/progress and GET /api/shape-progress/{shape} are          *)
(* read-only: for an identified visitor they leave the progress record and *)
(* the active question exactly as they were, and the counts they report    *)
(* are the stored ones.                                                    *)
(***************************************************************************)
C17_ProgressIsReadOnly ==
  [][(response'.route \in {"get_progress", "get_shape_progress"}
        /\ "student_id" \in session.keys)
       => LET stored == session.progress
              data == response'.data
              SameLevels(reported, shape) ==
                \A level \in Levels :
                  /\ reported[level].attempts
                       = stored.shapes[shape].levels[level].attempts
                  /\ reported[level].correct
                       = stored.shapes[shape].levels[level].correct
          IN  /\ session' = session
              /\ response'.route = "get_progress"
                   => /\ response'.status = 200
                      /\ data.total_attempts = stored.total_attempts
                      /\ data.correct_answers = stored.correct_answers
                      /\ data.wrong_answers = stored.wrong_answers
                      /\ data.shapes_mastered =
                           Cardinality({shape \in Shapes :
                                          stored.shapes[shape].mastered})
                      /\ \A shape \in Shapes :
                           SameLevels(data.shapes[shape].levels, shape)
              /\ (response'.route = "get_shape_progress"
                    /\ response'.arg \in Shapes)
                   => /\ response'.status = 200
                      /\ SameLevels(data.levels, response'.arg)]_vars

\* the progress of the square has just been reported, with three answers
\* counted at its beginner level of which two were correct
C17_Witness ==
  /\ response.route = "get_shape_progress" /\ response.arg = "square"
  /\ response.status = 200
  /\ response.data.levels["beginner"].attempts = 3
  /\ response.data.levels["beginner"].correct = 2
  /\ "current_question" \in session.keys

(***************************************************************************)
(* C18  A shape-progress lookup for a name that is not one of the four     *)
(* shapes is answered with status 404, never 200 or 500, and leaves the    *)
(* progress record unchanged.  Violated: a visitor without student_id is   *)
(* redirected to the index page (302) before the name is looked at.        *)
(***************************************************************************)
C18_UnknownShapeIs404 ==
  [][(response'.route = "get_shape_progress" /\ response'.arg \notin Shapes)
       => /\ response'.status = 404
          /\ session'.progress = session.progress]_vars

(***************************************************************************)
(* C18, amended.  A shape-progress lookup by an identified visitor for a   *)
(* name that is not one of the four shapes is answered with status 404     *)
(* and leaves the session unchanged; the lookup of a visitor who is not    *)
(* identified is answered with a redirect (302), whatever the name, and    *)
(* leaves the session without a record.                                    *)
(***************************************************************************)
C18_UnknownShapeIs404ForIdentified ==
  [][response'.route = "get_shape_progress"
       => /\ session' = session
          /\ IF "student_id" \notin session.keys
               THEN response'.status = 302 /\ "progress" \notin session'.keys
               ELSE response'.arg \notin Shapes => response'.status = 404]_vars

\* the lookup of hexagon has just been answered 404 for a visitor with
\* answers counted
C18_Witness ==
  /\ response.route = "get_shape_progress" /\ response.arg = "hexagon"
  /\ response.status = 404 /\ response.error = "Shape not found"
  /\ session.progress.total_attempts > 0

(***************************************************************************)
(* C19  GET /reset destroys the visitor's identity, progress record and    *)
(* active question; the next GET / then creates a record equal to the      *)
(* initial one: every counter 0, the history empty, and for each shape the *)
(* current level beginner, only beginner unlocked, nothing completed or    *)
(* mastered, and no active question.                                       *)
(***************************************************************************)
C19_ResetThenFresh ==
  [][/\ response'.route = "reset" => session'.keys = {}
     /\ (response'.route = "index" /\ "student_id" \notin session.keys)
          => /\ session'.keys = {"student_id", "progress"}
             /\ session'.progress.total_attempts = 0
             /\ session'.progress.correct_answers = 0
             /\ session'.progress.wrong_answers = 0
             /\ session'.progress.history = <<>>
             /\ \A shape \in Shapes :
                  LET sp == session'.progress.shapes[shape]
                  IN  /\ sp.current_level = "beginner"
                      /\ ~sp.mastered
                      /\ \A level \in Levels :
                           /\ sp.levels[level].unlocked = (level = "beginner")
                           /\ ~sp.levels[level].completed
                           /\ sp.levels[level].attempts = 0
                           /\ sp.levels[level].correct = 0
                           /\ sp.levels[level].questions = <<>>]_vars

\* the session has just been cleared
C19_Witness ==
  /\ response.route = "reset" /\ response.status = 302
  /\ session.keys = {}
  /\ session = EmptySession

(***************************************************************************)
(* C20  The outcome list of every level never holds more than 20 entries   *)
(* and the history never more than 50.  When a list is full, an accepted   *)
(* submission drops exactly its oldest entry and keeps the others in their *)
(* order, with the new outcome last; when it is not, the new outcome is    *)
(* appended.                                                               *)
(***************************************************************************)
C20_ListsBounded ==
  [][LET Bounded(sess) ==
           /\ Len(sess.progress.history) <= 50
           /\ \A shape \in Shapes : \A level \in Levels :
                Len(sess.progress.shapes[shape].levels[level].questions) <= 20
         Pushed(old, entry, bound) ==
           IF Len(old) < bound
             THEN old \o <<entry>>
             ELSE SubSeq(old, 2, Len(old)) \o <<entry>>
         shape == session.current_question.shape
         level == session.current_question.level
     IN  /\ Bounded(session)
         /\ Bounded(session')
         /\ Accepted(response')
              => /\ session'.progress.shapes[shape].levels[level].questions
                      = Pushed(session.progress.shapes[shape].levels[level]
                                 .questions,
                               [correct |-> response'.is_correct], 20)
                 /\ session'.progress.history
                      = Pushed(session.progress.history,
                               [shape |-> shape, level |-> level,
                                correct |-> response'.is_correct], 50)]_vars

\* more than 50 answers have been counted, the last one correct and the
\* one before it not: the history holds 50 and the level's list 20, and the
\* oldest entry left in the history is a correct answer
C20_Witness ==
  /\ Accepted(response) /\ response.is_correct
  /\ session.progress.total_attempts > 50
  /\ Len(session.progress.history) = 50
  /\ Len(session.progress.shapes["square"].levels["beginner"].questions) = 20
  /\ session.progress.history[1].correct
  /\ ~session.progress.history[49].correct
  /\ session.progress.history[50].correct

(***************************************************************************)
(* C21  The feedback category of an accepted submission follows from the   *)
(* classification, can_advance, the level the shape is at and needs_help,  *)
(* in this order: a correct answer that advances gives level_complete when *)
(* the shape is at its last level and level_up otherwise; a correct answer *)
(* that does not advance gives correct; a close answer gives close, also   *)
(* when needs_help is true; a wrong answer gives struggling with           *)
(* needs_help and wrong without it.                                        *)
(***************************************************************************)
C21_FeedbackPriority ==
  [][Accepted(response')
       => LET shape == session.current_question.shape
              at_last == session.progress.shapes[shape].current_level
                           = LEVEL_ORDER[Len(LEVEL_ORDER)]
              status == response'.level_status
          IN  response'.ai_tutor =
                IF response'.is_correct
                  THEN IF status.can_advance
                         THEN IF at_last THEN "level_complete" ELSE "level_up"
                         ELSE "correct"
                  ELSE IF response'.is_close THEN "close"
                  ELSE IF status.needs_help THEN "struggling"
                  ELSE "wrong"]_vars

\* a close answer after two wrong ones: needs_help is reported and the
\* category is close
C21_Witness ==
  /\ Accepted(response)
  /\ response.is_close /\ response.level_status.needs_help
  /\ response.ai_tutor = "close"

(***************************************************************************)
(* C22  Every accepted answer is scored at the current level of its shape: *)
(* when a submission is accepted, the level of the active question is the  *)
(* current_level of the question's shape, so that no attempt is added to a *)
(* level that is locked or already completed.  Violated: the question      *)
(* stays active after it is answered and after its shape is reset.         *)
(***************************************************************************)
C22_ScoredAtCurrentLevel ==
  [][Accepted(response')
       => LET shape == session.current_question.shape
              level == session.current_question.level
              sp == session.progress.shapes[shape]
          IN  /\ level = sp.current_level
              /\ sp.levels[level].unlocked
              /\ ~sp.levels[level].completed]_vars

(***************************************************************************)
(* C23  In every reachable state, for every shape: the unlocked levels are *)
(* a prefix of (beginner, intermediate, expert) that contains beginner;    *)
(* current_level is the highest unlocked level; every level below          *)
(* current_level is completed; a completed level is unlocked; and expert   *)
(* is completed exactly when the shape is mastered.                        *)
(***************************************************************************)
C23_UnlockedPrefix ==
  \A shape \in Shapes :
    LET sp == session.progress.shapes[shape]
        current_index == LevelIndex(sp.current_level)
    IN  /\ sp.current_level \in Levels
        /\ sp.levels["beginner"].unlocked
        /\ \A i \in 1..Len(LEVEL_ORDER) :
             /\ sp.levels[LEVEL_ORDER[i]].unlocked <=> i <= current_index
             /\ i < current_index => sp.levels[LEVEL_ORDER[i]].completed
             /\ sp.levels[LEVEL_ORDER[i]].completed
                  => sp.levels[LEVEL_ORDER[i]].unlocked
        /\ sp.levels["expert"].completed <=> sp.mastered

\* the square is at expert, not mastered, with its two lower levels
\* completed, and the other shapes are where they started
C23_Witness ==
  /\ session.progress.shapes["square"].current_level = "expert"
  /\ session.progress.shapes["square"].levels["intermediate"].completed
  /\ ~session.progress.shapes["square"].levels["expert"].completed
  /\ ~session.progress.shapes["square"].mastered
  /\ session.progress.shapes["circle"].current_level = "beginner"

\* the sum of attempts (i = 1) or of correct (i = 2) over the levels of the
\* shapes
RECURSIVE LevelSum(_, _, _)
LevelSum(sess, i, pairs) ==
  IF pairs = {} THEN 0
  ELSE LET p == CHOOSE x \in pairs : TRUE
       IN  Counters(sess).levels[p[1]][p[2]][i]
             + LevelSum(sess, i, pairs \ {p})

(***************************************************************************)
(* C24  In every reachable state total_attempts is the sum of attempts     *)
(* over all shapes and levels, and correct_answers is the sum of correct   *)
(* over all shapes and levels.  Violated: reset_shape sets the counters of *)
(* the shape's levels to 0 and leaves the global counters as they were.    *)
(***************************************************************************)
C24_TotalsAreSums ==
  /\ session.progress.total_attempts = LevelSum(session, 1, Shapes \X Levels)
  /\ session.progress.correct_answers = LevelSum(session, 2, Shapes \X Levels)

(***************************************************************************)
(* C25  In every reachable state total_attempts = correct_answers +        *)
(* wrong_answers, and none of the three is negative.                       *)
(***************************************************************************)
C25_TotalIsCorrectPlusWrong ==
  /\ session.progress.total_attempts
       = session.progress.correct_answers + session.progress.wrong_answers
  /\ session.progress.total_attempts >= 0
  /\ session.progress.correct_answers >= 0
  /\ session.progress.wrong_answers >= 0

\* correct and wrong answers have both been counted, and the shape they were
\* about has been reset since
C25_Witness ==
  /\ session.progress.correct_answers >= 2
  /\ session.progress.wrong_answers >= 2
  /\ response.route = "reset_shape" /\ response.arg = "square"
  /\ session.progress.shapes["square"].levels["beginner"].attempts = 0

(***************************************************************************)
(* C26  No level becomes unpassable for good: from every reachable state   *)
(* in which the square is not mastered, a visitor who keeps asking for a   *)
(* question about it and answers each one correctly has it mastered after  *)
(* finitely many answers, whatever wrong answers were counted before.      *)
(***************************************************************************)
C26_EventuallyMastered ==
  ~session.progress.shapes["square"].mastered
    ~> session.progress.shapes["square"].mastered

\* the square is mastered with MaxLiveWrong wrong answers counted at its
\* expert level
C26_Witness ==
  /\ session.progress.shapes["square"].mastered
  /\ session.progress.shapes["square"].levels["expert"].attempts
       - session.progress.shapes["square"].levels["expert"].correct
       = MaxLiveWrong

====
